---- MODULE Spec2Model ----
(***************************************************************************)
(* ReopenFiles (plugin.py): a Sublime Text event listener that remembers   *)
(* the selection and the viewport of a file when its view is closed and    *)
(* puts them back when the file is loaded again.  The state lives in the   *)
(* settings of the window under the key "rf_store".                        *)
(*                                                                         *)
(* The model holds the settings of every window and one view at a time:    *)
(* the view the host is currently delivering events for.  The host opens   *)
(* a view, the user moves in it, the window may go away (the view is then  *)
(* detached), and the host calls the two handlers.                         *)
(***************************************************************************)
EXTENDS Integers, Sequences, FiniteSets, TLC

\* ---------------------------------------------------------------- bounds
NumWindows == 2     \* windows 1..NumWindows
MaxPos     == 1     \* text offsets 0..MaxPos
MaxRegions == 2     \* regions in one selection
MaxScrollX == 0     \* horizontal viewport offsets 0..MaxScrollX
MaxScrollY == 1     \* vertical viewport offsets 0..MaxScrollY
MaxEntries == 2     \* entries held by all the stores together

\* ------------------------------------------------------------ value sets
NoWindow  == 0                       \* view.window() is None
Windows   == 1..NumWindows
NoName    == ""                      \* view.file_name() is None or ""
FileNames == {"/a.txt", "/b.txt"}
Pos       == 0..MaxPos

\* sublime.Region: anchor a, active end b (b < a for a reversed region)
Regions   == [a : Pos, b : Pos]
\* view.viewport_position(): (x, y)
Viewports == (0..MaxScrollX) \X (0..MaxScrollY)

Begin(r) == IF r.a <= r.b THEN r.a ELSE r.b
End(r)   == IF r.a <= r.b THEN r.b ELSE r.a
Empty(r) == r.a = r.b

\* Two regions of one sublime.Selection are kept apart: the selection is
\* sorted by position and regions that overlap (or a caret that touches a
\* region) are merged into one.
Apart(r, s) ==
    \/ End(r) < Begin(s)
    \/ End(r) = Begin(s) /\ ~Empty(r) /\ ~Empty(s)

IsSelection(s) == \A i \in 1..(Len(s) - 1) : Apart(s[i], s[i + 1])

Selections ==
    {s \in UNION {[1..n -> Regions] : n \in 1..MaxRegions} : IsSelection(s)}

\* The state a freshly loaded view is in: one caret at offset 0, no scroll.
OriginSel      == << [a |-> 0, b |-> 0] >>
OriginViewport == <<0, 0>>

VARIABLES
    settings,     \* settings[w]: the settings bag of window w, key -> value
    view,         \* the view the host delivers events for
    pre,          \* that view as it was when the last handler was entered
    lastHandler,  \* "close" or "load": the handler that ran last, "none"
                  \* when the host or the user acted since
    again,        \* that handler ran twice in a row, nothing in between
    explicit,     \* the opener positioned the view and it is still there
    raised,       \* the last handler ended with an exception
    closed        \* closed[w][f]: how a view of f was last closed in w

vars == <<settings, view, pre, lastHandler, again, explicit, raised, closed>>

\* ------------------------------------------------------- window settings
EmptyMap == [k \in {} |-> 0]

\* sublime.Settings.get(key, default)
SettingsGet(bag, key, default) ==
    IF key \in DOMAIN bag THEN bag[key] ELSE default

\* sublime.Settings.set(key, value)
SettingsSet(bag, key, value) ==
    [k \in (DOMAIN bag) \cup {key} |-> IF k = key THEN value ELSE bag[k]]

\* Mutant: the new state is written over every entry of the store.
PutEntry_clobber(store, file_name, state) ==
    [k \in (DOMAIN store) \cup {file_name} |-> state]

\* store[file_name] = state
PutEntry(store, file_name, state) ==
    [k \in (DOMAIN store) \cup {file_name} |->
        IF k = file_name THEN state ELSE store[k]]

\* Mutant: every handler reads the store of the first window.
rf_store_shared(st, w) == SettingsGet(st[1], "rf_store", EmptyMap)

\* The store of window w as a handler reads it.
rf_store(st, w) == SettingsGet(st[w], "rf_store", EmptyMap)

EntryCount(st) ==
    LET RECURSIVE Sum(_)
        Sum(ws) == IF ws = {} THEN 0
                   ELSE LET w == CHOOSE x \in ws : TRUE
                        IN  Cardinality(DOMAIN rf_store(st, w)) + Sum(ws \ {w})
    IN  Sum(Windows)

\* ------------------------------------------------------------ selections
\* Mutant: the regions are frozen last to first.
freeze_sel_backwards(sel) ==
    [i \in 1..Len(sel) |->
        <<sel[Len(sel) + 1 - i].a, sel[Len(sel) + 1 - i].b>>]

\* Mutant: the regions are frozen as (begin, end), the direction is lost.
freeze_sel_sorted(sel) ==
    [i \in 1..Len(sel) |-> <<Begin(sel[i]), End(sel[i])>>]

freeze_sel(sel) == [i \in 1..Len(sel) |-> <<sel[i].a, sel[i].b>>]

\* Mutant: every region is rebuilt left to right.
unfreeze_sel_forward(frozen) ==
    [i \in 1..Len(frozen) |->
        IF frozen[i][1] <= frozen[i][2]
        THEN [a |-> frozen[i][1], b |-> frozen[i][2]]
        ELSE [a |-> frozen[i][2], b |-> frozen[i][1]]]

unfreeze_sel(frozen) ==
    [i \in 1..Len(frozen) |-> [a |-> frozen[i][1], b |-> frozen[i][2]]]

\* The region covering r and s, with the direction of r.
Cover(r, s) ==
    LET lo == IF Begin(r) <= Begin(s) THEN Begin(r) ELSE Begin(s)
        hi == IF End(r) >= End(s) THEN End(r) ELSE End(s)
    IN  IF r.a <= r.b THEN [a |-> lo, b |-> hi] ELSE [a |-> hi, b |-> lo]

\* sublime.Selection.add(region)
RECURSIVE sel_add(_, _)
sel_add(sel, r) ==
    IF sel = <<>> THEN <<r>>
    ELSE IF Apart(r, Head(sel)) THEN <<r>> \o sel
    ELSE IF Apart(Head(sel), r) THEN <<Head(sel)>> \o sel_add(Tail(sel), r)
    ELSE sel_add(Tail(sel), Cover(Head(sel), r))

\* sublime.Selection.add_all(regions)
RECURSIVE sel_add_all(_, _)
sel_add_all(sel, regions) ==
    IF regions = <<>> THEN sel
    ELSE sel_add_all(sel_add(sel, Head(regions)), Tail(regions))

\* --------------------------------------------------------------- handlers
\* Mutant: a detached view falls back on the first window.
window_of_active(v) == IF v.window = NoWindow THEN 1 ELSE v.window

\* window = view.window()
window_of(v) == v.window

\* ensure_window: the handler body runs only for a view that has a window
ensure_window(v) == window_of(v) # NoWindow

\* Mutant: the handlers do not look at the scratch flag.
is_scratch_ignored(v) == FALSE

is_scratch(v) == v.scratch

\* Mutant: only a name that is None counts as missing, "" does not.
no_file_name_none(v) == FALSE

\* if not file_name
no_file_name(v) == v.file_name = NoName

\* the state dictionary on_pre_close builds
ViewState(v) == [sel |-> freeze_sel(v.sel), viewport |-> v.viewport]

\* Mutant: the handler starts from an empty store instead of the stored one.
on_pre_close_fresh(v, st) ==
    IF ~ensure_window(v) THEN st
    ELSE IF is_scratch(v) THEN st
    ELSE IF no_file_name(v) THEN st
    ELSE [st EXCEPT ![window_of(v)] =
             SettingsSet(@, "rf_store",
                         PutEntry(EmptyMap, v.file_name, ViewState(v)))]

\* Mutant: closing a file that has an entry forgets the entry.
on_pre_close_toggle(v, st) ==
    IF ~ensure_window(v) THEN st
    ELSE IF is_scratch(v) THEN st
    ELSE IF no_file_name(v) THEN st
    ELSE LET w     == window_of(v)
             store == rf_store(st, w)
         IN  IF v.file_name \in DOMAIN store
             THEN [st EXCEPT ![w] = SettingsSet(@, "rf_store",
                      [k \in (DOMAIN store) \ {v.file_name} |-> store[k]])]
             ELSE [st EXCEPT ![w] = SettingsSet(@, "rf_store",
                      PutEntry(store, v.file_name, ViewState(v)))]

\* The settings of the windows after on_pre_close(view).
on_pre_close(v, st) ==
    IF ~ensure_window(v) THEN st
    ELSE IF is_scratch(v) THEN st
    ELSE IF no_file_name(v) THEN st
    ELSE LET w     == window_of(v)
             store == rf_store(st, w)
         IN  [st EXCEPT ![w] = SettingsSet(@, "rf_store",
                                  PutEntry(store, v.file_name, ViewState(v)))]

\* Mutant: "and" in place of "or".
moved_already_both(v) ==
    /\ v.viewport # <<0, 0>>
    /\ freeze_sel(v.sel) # << <<0, 0>> >>

\* viewport_position() != (0, 0) or freeze_sel(view) != [(0, 0)]
moved_already(v) ==
    \/ v.viewport # <<0, 0>>
    \/ freeze_sel(v.sel) # << <<0, 0>> >>

\* Mutant: no origin check, and the view is scrolled by the stored offset
\* instead of to it.
on_load_async_relative(v, st) ==
    IF ~ensure_window(v) THEN [view |-> v, raised |-> FALSE]
    ELSE IF is_scratch(v) THEN [view |-> v, raised |-> FALSE]
    ELSE IF no_file_name(v) THEN [view |-> v, raised |-> FALSE]
    ELSE LET store == rf_store(st, window_of(v))
         IN  IF v.file_name \notin DOMAIN store
             THEN [view |-> v, raised |-> FALSE]
             ELSE LET state == store[v.file_name]
                  IN  [view   |-> [v EXCEPT
                                     !.sel = sel_add_all(<<>>,
                                                unfreeze_sel(state.sel)),
                                     !.viewport =
                                         <<@[1] + state.viewport[1],
                                           @[2] + state.viewport[2]>>],
                       raised |-> FALSE]

\* Mutant: the lookup is not guarded, a missing entry raises KeyError.
on_load_async_uncaught(v, st) ==
    IF ~ensure_window(v) THEN [view |-> v, raised |-> FALSE]
    ELSE IF is_scratch(v) THEN [view |-> v, raised |-> FALSE]
    ELSE IF moved_already(v) THEN [view |-> v, raised |-> FALSE]
    ELSE IF no_file_name(v) THEN [view |-> v, raised |-> FALSE]
    ELSE LET store == rf_store(st, window_of(v))
         IN  IF v.file_name \notin DOMAIN store
             THEN [view |-> v, raised |-> TRUE]
             ELSE LET state == store[v.file_name]
                  IN  [view   |-> [v EXCEPT
                                     !.sel = sel_add_all(<<>>,
                                                unfreeze_sel(state.sel)),
                                     !.viewport = state.viewport],
                       raised |-> FALSE]

\* The view and the exception flag after on_load_async(view).
on_load_async(v, st) ==
    IF ~ensure_window(v) THEN [view |-> v, raised |-> FALSE]
    ELSE IF is_scratch(v) THEN [view |-> v, raised |-> FALSE]
    ELSE IF moved_already(v) THEN [view |-> v, raised |-> FALSE]
    ELSE IF no_file_name(v) THEN [view |-> v, raised |-> FALSE]
    ELSE LET store == rf_store(st, window_of(v))
         IN  IF v.file_name \notin DOMAIN store
             THEN [view |-> v, raised |-> FALSE]      \* except KeyError
             ELSE LET state == store[v.file_name]
                  IN  [view   |-> [v EXCEPT
                                     !.sel = sel_add_all(<<>>,
                                                unfreeze_sel(state.sel)),
                                     !.viewport = state.viewport],
                       raised |-> FALSE]

\* ----------------------------------------------------------------- ghost
\* closed[w][f] is the selection and the viewport of the view of file f that
\* was closed last in window w, for as long as that view was not a scratch
\* view.  It is written in SpecRoundTrip only.
NotClosed == [k \in {} |-> 0]

RecordClose(cl, v) ==
    IF v.window = NoWindow \/ v.file_name = NoName THEN cl
    ELSE IF v.scratch
    THEN [cl EXCEPT ![v.window] =
             [k \in (DOMAIN @) \ {v.file_name} |-> @[k]]]
    ELSE [cl EXCEPT ![v.window] =
             PutEntry(@, v.file_name,
                      [sel |-> v.sel, viewport |-> v.viewport])]

\* ------------------------------------------------------------------ host
NewView(w, f, sc, sel, vp) ==
    [window |-> w, scratch |-> sc, file_name |-> f, sel |-> sel,
     viewport |-> vp]

Init ==
    /\ settings = [w \in Windows |-> EmptyMap]
    /\ \E w \in Windows, f \in FileNames \cup {NoName}, sc \in BOOLEAN :
           view = NewView(w, f, sc, OriginSel, OriginViewport)
    /\ pre = view
    /\ lastHandler = "none"
    /\ again = FALSE
    /\ explicit = FALSE
    /\ raised = FALSE
    /\ closed = [w \in Windows |-> NotClosed]

\* window.open_file(name): a new view loads in its default state.
OpenFile(w, f, sc) ==
    /\ view' = NewView(w, f, sc, OriginSel, OriginViewport)
    /\ pre' = view'
    /\ lastHandler' = "none"
    /\ again' = FALSE
    /\ explicit' = FALSE
    /\ raised' = FALSE
    /\ UNCHANGED <<settings, closed>>

\* window.open_file("name:row:col", ENCODED_POSITION): before the view is
\* handed to on_load_async the opener puts the caret and the viewport
\* where it was asked to, which may be the origin.
Position(sel, vp) ==
    /\ lastHandler = "none"
    /\ ~explicit
    /\ view.sel = OriginSel /\ view.viewport = OriginViewport
    /\ view' = [view EXCEPT !.sel = sel, !.viewport = vp]
    /\ pre' = view'
    /\ explicit' = TRUE
    /\ UNCHANGED <<settings, lastHandler, again, raised, closed>>

\* The user moves the carets.
MoveCaret(sel) ==
    /\ lastHandler # "close"
    /\ sel # view.sel
    /\ view' = [view EXCEPT !.sel = sel]
    /\ pre' = view'
    /\ lastHandler' = "none"
    /\ again' = FALSE
    /\ explicit' = FALSE
    /\ raised' = FALSE
    /\ UNCHANGED <<settings, closed>>

\* The user scrolls.
ScrollTo(vp) ==
    /\ lastHandler # "close"
    /\ vp # view.viewport
    /\ view' = [view EXCEPT !.viewport = vp]
    /\ pre' = view'
    /\ lastHandler' = "none"
    /\ again' = FALSE
    /\ explicit' = FALSE
    /\ raised' = FALSE
    /\ UNCHANGED <<settings, closed>>

\* The window of the view is closed: the view is detached.
Detach ==
    /\ lastHandler # "close"
    /\ view.window # NoWindow
    /\ view' = [view EXCEPT !.window = NoWindow]
    /\ pre' = view'
    /\ lastHandler' = "none"
    /\ again' = FALSE
    /\ raised' = FALSE
    /\ UNCHANGED <<settings, explicit, closed>>

\* The host calls on_pre_close(view).
CloseStep ==
    /\ EntryCount(on_pre_close(view, settings)) <= MaxEntries
    /\ settings' = on_pre_close(view, settings)
    /\ pre' = view
    /\ lastHandler' = "close"
    /\ again' = (lastHandler = "close")
    /\ explicit' = FALSE
    /\ raised' = FALSE
    /\ UNCHANGED view

PreClose == CloseStep /\ UNCHANGED closed

\* The same call, with the close written down in closed.
PreCloseRecorded ==
    /\ CloseStep
    /\ closed' = RecordClose(closed, view)

\* Mutant: the handler takes the entry it applies out of the store.
LoadAsync_pop ==
    /\ lastHandler # "close"
    /\ view' = on_load_async(view, settings).view
    /\ raised' = on_load_async(view, settings).raised
    /\ pre' = view
    /\ lastHandler' = "load"
    /\ again' = (lastHandler = "load")
    /\ explicit' = FALSE
    /\ settings' =
           IF /\ ensure_window(view) /\ ~is_scratch(view)
              /\ ~moved_already(view) /\ ~no_file_name(view)
              /\ view.file_name \in DOMAIN rf_store(settings, view.window)
           THEN [settings EXCEPT ![view.window] =
                    SettingsSet(@, "rf_store",
                        [k \in (DOMAIN rf_store(settings, view.window))
                                   \ {view.file_name} |->
                            rf_store(settings, view.window)[k]])]
           ELSE settings
    /\ UNCHANGED closed

\* The host calls on_load_async(view).
LoadAsync ==
    /\ lastHandler # "close"
    /\ view' = on_load_async(view, settings).view
    /\ raised' = on_load_async(view, settings).raised
    /\ pre' = view
    /\ lastHandler' = "load"
    /\ again' = (lastHandler = "load")
    /\ explicit' = FALSE
    /\ UNCHANGED <<settings, closed>>

Next ==
    \/ \E w \in Windows, f \in FileNames \cup {NoName}, sc \in BOOLEAN :
           OpenFile(w, f, sc)
    \/ \E sel \in Selections, vp \in Viewports : Position(sel, vp)
    \/ \E sel \in Selections : MoveCaret(sel)
    \/ \E vp \in Viewports : ScrollTo(vp)
    \/ Detach
    \/ PreClose
    \/ LoadAsync

Spec == Init /\ [][Next]_vars

\* The same program, with every close written down in closed.
NextRoundTrip ==
    \/ \E w \in Windows, f \in FileNames \cup {NoName}, sc \in BOOLEAN :
           OpenFile(w, f, sc)
    \/ \E sel \in Selections : MoveCaret(sel)
    \/ \E vp \in Viewports : ScrollTo(vp)
    \/ Detach
    \/ PreCloseRecorded
    \/ LoadAsync

SpecRoundTrip == Init /\ [][NextRoundTrip]_vars

TypeOK ==
    /\ view.window \in Windows \cup {NoWindow}
    /\ view.sel \in Selections
    /\ view.viewport \in Viewports
    /\ lastHandler \in {"none", "close", "load"}

\* ------------------------------------------------------------ properties
\* The store of window w, read off the settings.
Stored(w) ==
    IF "rf_store" \in DOMAIN settings[w] THEN settings[w]["rf_store"]
    ELSE EmptyMap

HasEntry(w, f) == w \in Windows /\ f \in DOMAIN Stored(w)

\* The view v is in the state of a freshly loaded view.
AtOriginState(v) ==
    /\ v.viewport = <<0, 0>>
    /\ Len(v.sel) = 1 /\ v.sel[1].a = 0 /\ v.sel[1].b = 0

\* The regions sel are the (anchor, active) pairs frozen, in the same order.
SameRanges(sel, frozen) ==
    /\ Len(sel) = Len(frozen)
    /\ \A i \in 1..Len(sel) :
           sel[i].a = frozen[i][1] /\ sel[i].b = frozen[i][2]

\* The entry of the store of v's window for v's file holds v's state.
EntryHolds(v) ==
    /\ HasEntry(v.window, v.file_name)
    /\ SameRanges(v.sel, Stored(v.window)[v.file_name].sel)
    /\ Stored(v.window)[v.file_name].viewport = v.viewport

\* The view v holds the state of the entry of its window for its file.
ViewHolds(v, from) ==
    /\ SameRanges(v.sel, Stored(from.window)[from.file_name].sel)
    /\ v.viewport = Stored(from.window)[from.file_name].viewport

SamePosition(v, u) == v.sel = u.sel /\ v.viewport = u.viewport

\* C1, as claimed: after on_pre_close of a view that has a file name and is
\* not a scratch view, the store holds an entry for the name with the
\* selection and the viewport of the view.
C1_AsClaimed ==
    (lastHandler = "close" /\ view.file_name # NoName /\ ~view.scratch)
        => EntryHolds(view)

\* C1, amended: after on_pre_close of a view that has a window, has a file
\* name and is not a scratch view, the store of its window holds an entry
\* for the name with the selection, as ordered (anchor, active) pairs, and
\* the viewport of the view.
C1_CloseStores ==
    (lastHandler = "close" /\ view.window # NoWindow
        /\ view.file_name # NoName /\ ~view.scratch)
        => EntryHolds(view)

C1_Witness ==
    /\ lastHandler = "close" /\ view.window # NoWindow
    /\ view.file_name # NoName /\ ~view.scratch
    /\ view.sel = << [a |-> 1, b |-> 0] >>
    /\ view.viewport # <<0, 0>>
    /\ EntryHolds(view)

\* C2, as claimed: a view that is loaded in its origin state and whose file
\* has an entry in the store holds, after on_load_async, the selection and
\* the viewport of the entry.
C2_AsClaimed ==
    (lastHandler = "load" /\ AtOriginState(pre)
        /\ HasEntry(pre.window, pre.file_name))
        => ViewHolds(view, pre)

\* C2, amended: a view that is not a scratch view, is loaded in its origin
\* state and whose file has an entry in the store of its window holds, after
\* on_load_async, the selection (same ranges, same order) and the viewport
\* of the entry.
C2_LoadRestores ==
    (lastHandler = "load" /\ AtOriginState(pre) /\ ~pre.scratch
        /\ HasEntry(pre.window, pre.file_name))
        => ViewHolds(view, pre)

C2_Witness ==
    /\ lastHandler = "load" /\ AtOriginState(pre) /\ ~pre.scratch
    /\ HasEntry(pre.window, pre.file_name)
    /\ Len(view.sel) = 2
    /\ view.viewport # <<0, 0>>
    /\ ViewHolds(view, pre)

\* C3: on_load_async leaves the selection and the viewport of a view alone
\* when its viewport is not (0, 0) or its selection is not [(0, 0)],
\* whatever the store holds for its file.
C3_MovedViewUntouched ==
    (lastHandler = "load" /\ ~AtOriginState(pre)) => SamePosition(view, pre)

C3_Witness ==
    /\ lastHandler = "load" /\ ~AtOriginState(pre)
    /\ pre.sel = OriginSel
    /\ ~pre.scratch
    /\ HasEntry(pre.window, pre.file_name)
    /\ ~ViewHolds(pre, pre)
    /\ SamePosition(view, pre)

\* C4, as claimed, read on the closes that closed keeps: when the view of
\* file P that was closed last in window W had selection S and viewport V,
\* any view of P that is loaded in W in its origin state holds S and V after
\* on_load_async.
C4_AsClaimed ==
    (lastHandler = "load" /\ AtOriginState(pre) /\ pre.window # NoWindow
        /\ pre.file_name \in DOMAIN closed[pre.window])
        => SamePosition(view, closed[pre.window][pre.file_name])

\* C4, amended: when the view of file P that was closed last in window W was
\* not a scratch view and had selection S and viewport V, a view of P that
\* is not a scratch view and is loaded in W in its origin state holds S and
\* V after on_load_async, whatever was closed and loaded in between.
C4_RoundTrip ==
    (lastHandler = "load" /\ AtOriginState(pre) /\ pre.window # NoWindow
        /\ ~pre.scratch
        /\ pre.file_name \in DOMAIN closed[pre.window])
        => SamePosition(view, closed[pre.window][pre.file_name])

C4_Witness ==
    /\ lastHandler = "load" /\ AtOriginState(pre) /\ pre.window # NoWindow
    /\ ~pre.scratch
    /\ pre.file_name \in DOMAIN closed[pre.window]
    /\ \E f \in DOMAIN closed[pre.window] : f # pre.file_name
    /\ ~AtOriginState(view)
    /\ SamePosition(view, closed[pre.window][pre.file_name])

\* C5: when the opener has positioned the view, at the origin or elsewhere,
\* on_load_async does not replace that position by the stored one.
C5_ExplicitPositionKept ==
    [][(explicit /\ lastHandler' = "load") => SamePosition(view', view)]_vars

\* C6: a second on_pre_close of the same view, nothing having happened in
\* between, leaves the settings of every window as the first call left them.
C6_CloseIdempotent ==
    [][(lastHandler = "close" /\ lastHandler' = "close")
          => settings' = settings]_vars

C6_Witness ==
    /\ lastHandler = "close" /\ again
    /\ ~AtOriginState(view)
    /\ EntryHolds(view)
    /\ \E f \in DOMAIN Stored(view.window) : f # view.file_name

\* C7: for a view without a window on_pre_close leaves the settings of every
\* window as they are and on_load_async leaves the view as it is.
C7_DetachedNoOp ==
    [][view.window = NoWindow =>
          /\ lastHandler' = "close" => settings' = settings
          /\ lastHandler' = "load" => SamePosition(view', view)]_vars

C7_Witness ==
    /\ lastHandler = "close" /\ view.window = NoWindow
    /\ view.file_name # NoName /\ ~view.scratch
    /\ ~AtOriginState(view)
    /\ \A w \in Windows : view.file_name \notin DOMAIN Stored(w)

\* C8: a view that is loaded in its origin state in a window whose store has
\* no entry for its file is in its origin state after on_load_async, and no
\* exception is raised.
C8_MissKeepsOrigin ==
    (lastHandler = "load" /\ AtOriginState(pre) /\ pre.window # NoWindow
        /\ ~HasEntry(pre.window, pre.file_name))
        => (AtOriginState(view) /\ ~raised)

C8_Witness ==
    /\ lastHandler = "load" /\ AtOriginState(pre) /\ pre.window # NoWindow
    /\ ~pre.scratch /\ pre.file_name # NoName
    /\ ~HasEntry(pre.window, pre.file_name)
    /\ Stored(pre.window) # EmptyMap
    /\ AtOriginState(view) /\ ~raised

\* C9: for a scratch view on_pre_close leaves the settings of every window
\* as they are, and on_load_async leaves the view as it is, whatever its
\* file name, its position and the store.
C9_ScratchNoOp ==
    [][view.scratch =>
          /\ lastHandler' = "close" => settings' = settings
          /\ lastHandler' = "load" => SamePosition(view', view)]_vars

C9_Witness ==
    /\ lastHandler = "load" /\ pre.scratch /\ AtOriginState(pre)
    /\ HasEntry(pre.window, pre.file_name)
    /\ ~ViewHolds(pre, pre)
    /\ SamePosition(view, pre)

\* C10: for a view without a file name on_pre_close leaves the settings of
\* every window as they are and on_load_async leaves the view as it is; no
\* store ever has an entry under the empty name.
C10_NoNameNoOp ==
    /\ [](\A w \in Windows : NoName \notin DOMAIN Stored(w))
    /\ [][view.file_name = NoName =>
             /\ lastHandler' = "close" => settings' = settings
             /\ lastHandler' = "load" => SamePosition(view', view)]_vars

C10_Witness ==
    /\ lastHandler = "close" /\ view.file_name = NoName
    /\ view.window # NoWindow /\ ~view.scratch
    /\ ~AtOriginState(view)
    /\ Stored(view.window) # EmptyMap

\* C11: an entry of a store is never deleted: whatever the step, a file
\* name that has an entry in the store of a window has one afterwards.
C11_EntriesKept ==
    [][\A w \in Windows : \A f \in DOMAIN Stored(w) :
          f \in DOMAIN Stored(w)']_vars

C11_Witness ==
    /\ lastHandler = "close" /\ again
    /\ AtOriginState(view)
    /\ EntryHolds(view)
    /\ \E w \in Windows \ {view.window} : Stored(w) # EmptyMap

\* C12: on_pre_close of a view of file P in window W changes no entry but
\* the one of P in W, and leaves the selection and the viewport of the
\* view as they are.
C12_CloseTouchesOneEntry ==
    [][lastHandler' = "close" =>
          /\ \A w \in Windows : \A f \in FileNames \cup {NoName} :
                 (w # view.window \/ f # view.file_name) =>
                    /\ (f \in DOMAIN Stored(w)') = (f \in DOMAIN Stored(w))
                    /\ f \in DOMAIN Stored(w) =>
                           Stored(w)'[f] = Stored(w)[f]
          /\ SamePosition(view', view)]_vars

C12_Witness ==
    /\ lastHandler = "close" /\ ~again
    /\ view.window # NoWindow /\ view.file_name # NoName /\ ~view.scratch
    /\ EntryHolds(view)
    /\ \E f \in DOMAIN Stored(view.window) :
           /\ f # view.file_name
           /\ Stored(view.window)[f] # Stored(view.window)[view.file_name]

\* C13: no update is lost: whatever the order of the closes, and whatever
\* was loaded in between, the store of a window holds, for every file whose
\* view was closed last as a view that is not a scratch view, the selection
\* and the viewport that view had.
C13_NoLostUpdate ==
    \A w \in Windows : \A f \in DOMAIN closed[w] :
        /\ f \in DOMAIN Stored(w)
        /\ SameRanges(closed[w][f].sel, Stored(w)[f].sel)
        /\ Stored(w)[f].viewport = closed[w][f].viewport

C13_Witness ==
    /\ lastHandler = "load"
    /\ \E w \in Windows : \E f \in DOMAIN closed[w] :
           \E g \in DOMAIN closed[w] :
              /\ f # g
              /\ closed[w][f] # closed[w][g]
              /\ SameRanges(closed[w][f].sel, Stored(w)[f].sel)
              /\ SameRanges(closed[w][g].sel, Stored(w)[g].sel)

\* C14: on_load_async leaves the settings of every window as they are,
\* also when it applies an entry.
C14_LoadKeepsStore ==
    [][lastHandler' = "load" => settings' = settings]_vars

C14_Witness ==
    /\ lastHandler = "load" /\ ~again
    /\ AtOriginState(pre) /\ ~pre.scratch
    /\ HasEntry(pre.window, pre.file_name)
    /\ view.sel = << [a |-> 1, b |-> 0] >>
    /\ ViewHolds(view, pre)

\* C15: the stores are kept apart: on_pre_close of a view of window W
\* changes the settings of no other window, and a view that is loaded in its
\* origin state in W, W having no entry for its file, is left as it is even
\* when another window has an entry for that file.
C15_WindowsApart ==
    /\ [][lastHandler' = "close" =>
             \A w \in Windows \ {view.window} : settings'[w] = settings[w]]_vars
    /\ []((/\ lastHandler = "load" /\ AtOriginState(pre)
           /\ pre.window # NoWindow
           /\ ~HasEntry(pre.window, pre.file_name)
           /\ \E w \in Windows : HasEntry(w, pre.file_name))
              => SamePosition(view, pre))

C15_Witness ==
    /\ lastHandler = "load" /\ AtOriginState(pre)
    /\ pre.window # NoWindow /\ ~pre.scratch
    /\ ~HasEntry(pre.window, pre.file_name)
    /\ \E w \in Windows :
           /\ HasEntry(w, pre.file_name)
           /\ Stored(w)[pre.file_name].viewport # <<0, 0>>
    /\ Stored(pre.window) # EmptyMap
    /\ SamePosition(view, pre)

\* C16: a second on_load_async of the same view, nothing having happened in
\* between, leaves the selection and the viewport as the first call left
\* them.
C16_LoadIdempotent ==
    (lastHandler = "load" /\ again) => SamePosition(view, pre)

C16_Witness ==
    /\ lastHandler = "load" /\ again
    /\ ~pre.scratch
    /\ HasEntry(pre.window, pre.file_name)
    /\ AtOriginState(pre)
    /\ ViewHolds(view, pre)

\* C17: unfreeze_sel(freeze_sel(view)) has the (anchor, active) pairs of the
\* selection of the view, in the same order, and freeze_sel of a view that
\* holds unfreeze_sel(s) is s, for every selection s a store holds.
C17_FreezeRoundTrip ==
    /\ LET back == unfreeze_sel(freeze_sel(view.sel))
       IN  /\ Len(back) = Len(view.sel)
           /\ \A i \in 1..Len(view.sel) :
                  back[i].a = view.sel[i].a /\ back[i].b = view.sel[i].b
    /\ \A w \in Windows : \A f \in DOMAIN Stored(w) :
           LET s    == Stored(w)[f].sel
               held == sel_add_all(<<>>, unfreeze_sel(s))
               again_frozen == freeze_sel(held)
           IN  /\ Len(again_frozen) = Len(s)
               /\ \A i \in 1..Len(s) : again_frozen[i] = s[i]

C17_Witness ==
    /\ lastHandler = "close"
    /\ Len(view.sel) = 2
    /\ EntryHolds(view)
    /\ \E f \in DOMAIN Stored(view.window) :
           Stored(view.window)[f].sel = << <<1, 0>> >>
====
